---- MODULE Spec2Model ----
(***************************************************************************)
(* c-notify: event-based sound notifications for Codex and Claude.         *)
(*                                                                         *)
(* The model follows src/c-notify.py.  Several short-lived invocations     *)
(* (cmd_hook, cmd_play) run concurrently and share one state document on   *)
(* disk (STATE_PATH), one lock file (LOCK_PATH), the wall clock and the    *)
(* table of live processes.  Times are whole time units (the code uses     *)
(* float seconds), a JSON value that float()/int() may or may not parse    *)
(* is a sequence: <<n>> when it parses to n, <<>> when it does not (None,  *)
(* a non-numeric string, a list).  A JSON value that is expected to be an  *)
(* object carries its kind: "dict", "other" (any non-object) or "absent"   *)
(* (the key is missing).                                                   *)
(***************************************************************************)
EXTENDS Integers, Sequences, FiniteSets, TLC

VARIABLES
    config_file,  \* the document at CONFIG_PATH
    fcntl,        \* TRUE when the fcntl module could be imported
    has_player,   \* TRUE when shutil.which finds a player program
    disk,         \* the state document at STATE_PATH
    lock_holder,  \* the invocation holding flock(LOCK_EX) on LOCK_PATH, or NoProc
    pc,           \* position of each invocation
    cmd,          \* "hook" or "play"
    tool,         \* --tool of the invocation
    candidates,   \* candidate list handed to try_play_event
    state,        \* the invocation's in-memory state dict
    loaded,       \* the state dict as load_state returned it
    result,       \* what try_play_event returned: [path, used_event]
    exit_code,    \* the command's return value
    clock,        \* time.time()
    running,      \* pids of the player processes that are alive
    last_fired,   \* history: per category, the time of its latest playback
    overlapped,   \* history: some invocation loaded while another was mid-cycle
    call,         \* pure-function harness: the arguments
    ret           \* pure-function harness: the value returned

vars == <<config_file, fcntl, has_player, disk, lock_holder, pc, cmd, tool, candidates, state,
          loaded, result, exit_code, clock, running, last_fired,
          overlapped, call, ret>>

(***************************************************************************)
(* Bounds of the model.                                                    *)
(***************************************************************************)
MaxTime == 3          \* the clock stops advancing here
MaxPid == 2           \* pids the operating system hands out: 1..MaxPid

\* the invocations of one behaviour, each a process of its own
Procs == {"p1", "p2"}
NoProc == "none"

Tools == {"codex", "claude"}
Categories == {"task-complete", "task-error", "session-start"}

(***************************************************************************)
(* JSON helpers.                                                           *)
(***************************************************************************)
EmptyMap == [x \in {} |-> <<>>]
Dict(m) == [kind |-> "dict", m |-> m]
NotADict == [kind |-> "other", m |-> EmptyMap]
AbsentKey == [kind |-> "absent", m |-> EmptyMap]
Num(n) == <<n>>
None == <<>>

\* dict.get(key, default)
DictGet(m, key, default) == IF key \in DOMAIN m THEN m[key] ELSE default

\* d[key] = value
DictSet(m, key, value) ==
    [x \in (DOMAIN m) \cup {key} |-> IF x = key THEN value ELSE m[x]]

Max(a, b) == IF a >= b THEN a ELSE b

(***************************************************************************)
(* Defaults.                                                               *)
(***************************************************************************)
DEFAULT_STATE ==
    [last_played |-> Dict(EmptyMap),
     last_event_ts |-> Dict(EmptyMap),
     playback_pid |-> None]

\* DEFAULT_CONFIG["extensions"], cut to two entries
Extensions == {".wav", ".mp3"}

(***************************************************************************)
(* The sound library: <sound_root>/<tool>/<category>/.  A directory entry  *)
(* is a regular file [stem, ext]; init_sound_tree puts a README.md into    *)
(* every directory it creates.  task-complete and task-error are no claude *)
(* events, so their claude directories do not exist.                       *)
(***************************************************************************)
File(stem, ext) == [stem |-> stem, ext |-> ext]
Readme == File(9, ".md")
\* str() of a missing last_played entry: ""
NoFile == File(0, "")

SoundTree ==
    [key \in Tools \X Categories |->
        CASE key = <<"codex", "task-complete">> ->
                 [is_dir |-> TRUE, entries |-> {File(1, ".wav"), File(2, ".mp3"), Readme}]
          [] key = <<"codex", "session-start">> ->
                 [is_dir |-> TRUE, entries |-> {File(3, ".wav"), Readme}]
          [] key = <<"codex", "task-error">> ->
                 [is_dir |-> TRUE, entries |-> {Readme}]
          [] key = <<"claude", "session-start">> ->
                 [is_dir |-> TRUE, entries |-> {File(1, ".wav"), Readme}]
          [] OTHER ->
                 [is_dir |-> FALSE, entries |-> {}]]

RECURSIVE sorted(_)
sorted(S) ==
    IF S = {} THEN <<>>
    ELSE LET least == CHOOSE x \in S : \A y \in S : x.stem <= y.stem
         IN  <<least>> \o sorted(S \ {least})

list_audio_files(sound_dir, extensions) ==
    IF ~sound_dir.is_dir THEN <<>>
    ELSE sorted({p \in sound_dir.entries : p.ext \in extensions})

(***************************************************************************)
(* Overlap guard and cooldown gate.                                        *)
(***************************************************************************)
\* os.kill(pid, 0) succeeds exactly for the pids in run
\* pid_t's largest value, scaled down from 2^31 - 1
PidTMax == 7

\* line 329: os.kill raises OverflowError, which line 330 does not catch,
\* when the integer does not fit pid_t
is_pid_running_raises(raw_pid) == Len(raw_pid) > 0 /\ raw_pid[1] > PidTMax

is_pid_running(raw_pid, run) ==
    IF Len(raw_pid) = 0 THEN FALSE
    ELSE IF raw_pid[1] <= 0 THEN FALSE
    ELSE raw_pid[1] \in run

clamp_float(value, default, minimum) ==
    LET parsed == IF Len(value) = 1 THEN value[1] ELSE default
    IN  Max(minimum, parsed)

\* mutant: the per-event override is not consulted
event_cooldown_seconds_global(cfg, event_name) ==
    clamp_float(cfg.cooldown_seconds, 0, 0)

event_cooldown_seconds(cfg, event_name) ==
    LET raw == IF cfg.cooldown_by_event.kind = "dict"
               THEN DictGet(cfg.cooldown_by_event.m, event_name, cfg.cooldown_seconds)
               ELSE cfg.cooldown_seconds
    IN  clamp_float(raw, 0, 0)

\* mutant: the window ends one time unit early
on_cooldown_short(cfg, st, event_name, now_ts) ==
    LET seconds == event_cooldown_seconds(cfg, event_name)
    IN  IF seconds <= 0 THEN FALSE
        ELSE IF st.last_event_ts.kind # "dict" THEN FALSE
        ELSE LET raw == DictGet(st.last_event_ts.m, event_name, Num(0))
                 last_ts == IF Len(raw) = 1 THEN raw[1] ELSE 0
             IN  IF last_ts <= 0 THEN FALSE
                 ELSE (now_ts - last_ts) < seconds - 1

on_cooldown(cfg, st, event_name, now_ts) ==
    LET seconds == event_cooldown_seconds(cfg, event_name)
    IN  IF seconds <= 0 THEN FALSE
        ELSE IF st.last_event_ts.kind # "dict" THEN FALSE
        ELSE LET raw == DictGet(st.last_event_ts.m, event_name, Num(0))
                 last_ts == IF Len(raw) = 1 THEN raw[1] ELSE 0
             IN  IF last_ts <= 0 THEN FALSE
                 ELSE (now_ts - last_ts) < seconds

(***************************************************************************)
(* Sound selector.  random.choice is a free choice among the pool; on an   *)
(* empty pool it raises IndexError.                                        *)
(***************************************************************************)
SeqToSet(s) == {s[i] : i \in DOMAIN s}

\* state.setdefault("last_played", {}), replaced by {} when not a dict
last_played_dict(st) ==
    IF st.last_played.kind = "dict" THEN st.last_played.m ELSE EmptyMap

\* mutant: the last-played file stays in the pool
pick_pool_all(st, state_key, files) == files

\* mutant: the filter is applied whatever the length, without the fallback
pick_pool_filter_only(st, state_key, files) ==
    LET last_file == DictGet(last_played_dict(st), state_key, NoFile)
    IN  SelectSeq(files, LAMBDA f : f # last_file)

\* the list random.choice draws from
pick_pool(st, state_key, files) ==
    LET last_file == DictGet(last_played_dict(st), state_key, NoFile)
        filtered == IF Len(files) <= 1 THEN files
                    ELSE SelectSeq(files, LAMBDA f : f # last_file)
    IN  IF filtered = <<>> THEN files ELSE filtered

\* the state after _pick_sound chose `chosen`
pick_sound(st, state_key, chosen) ==
    [st EXCEPT !.last_played = Dict(DictSet(last_played_dict(st), state_key, chosen))]

(***************************************************************************)
(* Playback dispatcher: Popen returns the pid of a new process, or no      *)
(* player program is found and play_sound returns None.                    *)
(***************************************************************************)
play_sound(player, run) ==
    IF player THEN {Num(pid) : pid \in (1..MaxPid) \ run} ELSE {None}

(***************************************************************************)
(* Playback orchestration.  try_play_event yields the set of outcomes      *)
(* [state, path, used_event, pid] the call can end with: the state dict    *)
(* after the call, the returned pair, and the pid play_sound returned.     *)
(***************************************************************************)
NoEvent == ""
Skipped(st) == [state |-> st, path |-> NoFile, used_event |-> NoEvent, pid |-> None]

\* mutant: the timestamp is not recorded
play_candidate_no_ts(tool_name, event_name, st, files, now_ts, run, player) ==
    LET state_key == <<tool_name, event_name>>
    IN  {[state |-> [pick_sound(st, state_key, chosen) EXCEPT !.playback_pid = pid],
          path |-> chosen, used_event |-> event_name, pid |-> pid] :
            chosen \in SeqToSet(pick_pool(st, state_key, files)),
            pid \in play_sound(player, run)}

\* mutant: playback_pid is stored only when a player was started
play_candidate_pid_if_started(tool_name, event_name, st, files, now_ts, run, player) ==
    LET state_key == <<tool_name, event_name>>
    IN  {[state |-> [pick_sound(st, state_key, chosen) EXCEPT
                        !.last_event_ts =
                            Dict(DictSet(IF st.last_event_ts.kind = "dict"
                                         THEN st.last_event_ts.m ELSE EmptyMap,
                                         event_name, Num(now_ts))),
                        !.playback_pid = IF pid = None THEN st.playback_pid ELSE pid],
          path |-> chosen, used_event |-> event_name, pid |-> pid] :
            chosen \in SeqToSet(pick_pool(st, state_key, files)),
            pid \in play_sound(player, run)}

\* lines 676-688: the body of the loop once a candidate has files
play_candidate(tool_name, event_name, st, files, now_ts, run, player) ==
    LET state_key == <<tool_name, event_name>>
    IN  {[state |-> [pick_sound(st, state_key, chosen) EXCEPT
                        !.last_event_ts =
                            Dict(DictSet(IF st.last_event_ts.kind = "dict"
                                         THEN st.last_event_ts.m ELSE EmptyMap,
                                         event_name, Num(now_ts))),
                        !.playback_pid = pid],
          path |-> chosen, used_event |-> event_name, pid |-> pid] :
            chosen \in SeqToSet(pick_pool(st, state_key, files)),
            pid \in play_sound(player, run)}

\* mutant: the loop does not consult the cooldown gate
RECURSIVE try_candidates_no_gate(_, _, _, _, _, _, _, _)
try_candidates_no_gate(tool_name, cands, i, cfg, st, now_ts, run, player) ==
    IF i > Len(cands) THEN {Skipped(st)}
    ELSE LET files == list_audio_files(SoundTree[<<tool_name, cands[i]>>], Extensions)
         IN  IF files = <<>>
             THEN try_candidates_no_gate(tool_name, cands, i + 1, cfg, st, now_ts, run, player)
             ELSE play_candidate(tool_name, cands[i], st, files, now_ts, run, player)

\* mutant: a candidate without eligible files gets its timestamp before it
\* is skipped
RECURSIVE try_candidates_stamps_skipped(_, _, _, _, _, _, _, _)
try_candidates_stamps_skipped(tool_name, cands, i, cfg, st, now_ts, run, player) ==
    IF i > Len(cands) THEN {Skipped(st)}
    ELSE IF on_cooldown(cfg, st, cands[i], now_ts)
         THEN try_candidates_stamps_skipped(tool_name, cands, i + 1, cfg, st, now_ts, run, player)
    ELSE LET files == list_audio_files(SoundTree[<<tool_name, cands[i]>>], Extensions)
             stamped == [st EXCEPT !.last_event_ts =
                            Dict(DictSet(IF st.last_event_ts.kind = "dict"
                                         THEN st.last_event_ts.m ELSE EmptyMap,
                                         cands[i], Num(now_ts)))]
         IN  IF files = <<>>
             THEN try_candidates_stamps_skipped(tool_name, cands, i + 1, cfg, stamped, now_ts, run, player)
             ELSE play_candidate(tool_name, cands[i], st, files, now_ts, run, player)

\* lines 667-690: the loop over the candidates, from index i on
RECURSIVE try_candidates(_, _, _, _, _, _, _, _)
try_candidates(tool_name, cands, i, cfg, st, now_ts, run, player) ==
    IF i > Len(cands) THEN {Skipped(st)}
    ELSE IF on_cooldown(cfg, st, cands[i], now_ts)
         THEN try_candidates(tool_name, cands, i + 1, cfg, st, now_ts, run, player)
    ELSE LET files == list_audio_files(SoundTree[<<tool_name, cands[i]>>], Extensions)
         IN  IF files = <<>>
             THEN try_candidates(tool_name, cands, i + 1, cfg, st, now_ts, run, player)
             ELSE play_candidate(tool_name, cands[i], st, files, now_ts, run, player)

\* mutant: the flag is read negated
overlap_abort_negated(cfg, st, run) ==
    ~cfg.prevent_overlap /\ is_pid_running(st.playback_pid, run)

\* lines 662-665: TRUE when the overlap guard ends the call
overlap_abort(cfg, st, run) ==
    cfg.prevent_overlap /\ is_pid_running(st.playback_pid, run)

\* line 663: the probe of the overlap guard ends the call with an exception
overlap_probe_raises(cfg, st) ==
    cfg.prevent_overlap /\ is_pid_running_raises(st.playback_pid)

\* mutant: the stored pid is cleared before the liveness probe decides
try_play_event_clears(tool_name, cands, cfg, st, now_ts, run, player) ==
    LET cleared == IF cfg.prevent_overlap
                   THEN [st EXCEPT !.playback_pid = None] ELSE st
    IN  IF overlap_abort(cfg, st, run) THEN {Skipped(cleared)}
        ELSE try_candidates(tool_name, cands, 1, cfg, cleared, now_ts, run, player)

\* lines 662-690: the overlap guard, the reset of the stored pid, the loop
try_play_event(tool_name, cands, cfg, st, now_ts, run, player) ==
    IF overlap_abort(cfg, st, run) THEN {Skipped(st)}
    ELSE LET cleared == IF cfg.prevent_overlap
                        THEN [st EXCEPT !.playback_pid = None] ELSE st
         IN  try_candidates(tool_name, cands, 1, cfg, cleared, now_ts, run, player)

(***************************************************************************)
(* State store.                                                            *)
(***************************************************************************)
\* _merge on one object-valued key: both dicts merge, anything else is replaced
merge_key(dst, src) ==
    IF src.kind = "absent" THEN dst
    ELSE IF dst.kind = "dict" /\ src.kind = "dict"
         THEN Dict([k \in (DOMAIN dst.m) \cup (DOMAIN src.m) |->
                       IF k \in DOMAIN src.m THEN src.m[k] ELSE dst.m[k]])
    ELSE src

\* the file is missing (or no JSON object): _load_json returns {}
NoDocument == [exists |-> FALSE, doc |-> DEFAULT_STATE]
Document(doc) == [exists |-> TRUE, doc |-> doc]

load_state(file) ==
    IF ~file.exists THEN DEFAULT_STATE
    ELSE [last_played |-> merge_key(DEFAULT_STATE.last_played, file.doc.last_played),
          last_event_ts |-> merge_key(DEFAULT_STATE.last_event_ts, file.doc.last_event_ts),
          playback_pid |-> file.doc.playback_pid]

save_state(st) == Document(st)

(***************************************************************************)
(* Text.  A str is a TLA+ string; the methods the resolvers use are        *)
(* computed character by character.                                        *)
(***************************************************************************)
UpperLetters == "ABCDEFGHIJKLMNOPQRSTUVWXYZ"
LowerLetters == "abcdefghijklmnopqrstuvwxyz"
Digits == "0123456789"
Whitespace == {" ", "\t", "\n"}

CharAt(s, i) == SubSeq(s, i, i)
CharsOf(s) == {CharAt(s, i) : i \in 1..Len(s)}

\* str.lower() on one character
lower_char(c) ==
    IF c \in CharsOf(UpperLetters)
    THEN CharAt(LowerLetters, CHOOSE i \in 1..Len(UpperLetters) : CharAt(UpperLetters, i) = c)
    ELSE c

RECURSIVE lower(_)
lower(s) == IF s = "" THEN "" ELSE lower_char(CharAt(s, 1)) \o lower(SubSeq(s, 2, Len(s)))

\* str.strip(chars)
RECURSIVE lstrip(_, _)
lstrip(s, drop) ==
    IF s # "" /\ CharAt(s, 1) \in drop THEN lstrip(SubSeq(s, 2, Len(s)), drop) ELSE s

RECURSIVE rstrip(_, _)
rstrip(s, drop) ==
    IF s # "" /\ CharAt(s, Len(s)) \in drop THEN rstrip(SubSeq(s, 1, Len(s) - 1), drop) ELSE s

strip(s, drop) == rstrip(lstrip(s, drop), drop)

\* re.sub(r"[^...]+", repl, s): every maximal run of characters outside keep
\* becomes repl
RECURSIVE re_sub_not_in(_, _, _, _)
re_sub_not_in(keep, repl, s, in_run) ==
    IF s = "" THEN ""
    ELSE LET c == CharAt(s, 1)
             rest == SubSeq(s, 2, Len(s))
         IN  IF c \in keep THEN c \o re_sub_not_in(keep, repl, rest, FALSE)
             ELSE IF in_run THEN re_sub_not_in(keep, repl, rest, TRUE)
             ELSE repl \o re_sub_not_in(keep, repl, rest, TRUE)

\* term in text
contains(term, text) ==
    \E i \in 1..(Len(text) - Len(term) + 1) : SubSeq(text, i, i + Len(term) - 1) = term

\* mutant: separators are dropped instead of becoming "-"
slug_drops_separators(value) ==
    re_sub_not_in(CharsOf(LowerLetters) \cup CharsOf(Digits), "",
                  lower(strip(value, Whitespace)), FALSE)

\* _slug
slug(value) ==
    strip(re_sub_not_in(CharsOf(LowerLetters) \cup CharsOf(Digits), "-",
                        lower(strip(value, Whitespace)), FALSE),
          {"-"})

(***************************************************************************)
(* Event normalization.                                                    *)
(***************************************************************************)
CODEX_ALIAS_MAP ==
    "agent-turn-complete" :> "agent-turn-complete" @@
    "complete" :> "task-complete" @@
    "done" :> "task-complete" @@
    "task-complete" :> "task-complete" @@
    "approval-requested" :> "approval-requested" @@
    "permission" :> "permission-needed" @@
    "permission-needed" :> "permission-needed" @@
    "approve" :> "permission-needed" @@
    "approval" :> "permission-needed" @@
    "error" :> "task-error" @@
    "task-error" :> "task-error" @@
    "fail" :> "task-error" @@
    "failed" :> "task-error" @@
    "resource-limit" :> "resource-limit" @@
    "rate-limit" :> "resource-limit" @@
    "quota" :> "resource-limit" @@
    "session-start" :> "session-start" @@
    "start" :> "session-start"

CLAUDE_ALIAS_MAP ==
    "sessionstart" :> "session-start" @@
    "session-start" :> "session-start" @@
    "sessionend" :> "session-end" @@
    "session-end" :> "session-end" @@
    "subagentstart" :> "subagent-start" @@
    "subagent-start" :> "subagent-start" @@
    "subagentstop" :> "subagent-stop" @@
    "subagent-stop" :> "subagent-stop" @@
    "userpromptsubmit" :> "user-prompt-submit" @@
    "user-prompt-submit" :> "user-prompt-submit" @@
    "stop" :> "stop" @@
    "notification" :> "notification" @@
    "permissionrequest" :> "permission-request" @@
    "permission-request" :> "permission-request" @@
    "posttoolusefailure" :> "post-tool-use-failure" @@
    "post-tool-use-failure" :> "post-tool-use-failure" @@
    "precompact" :> "pre-compact" @@
    "pre-compact" :> "pre-compact" @@
    "pretooluse" :> "pre-tool-use" @@
    "pre-tool-use" :> "pre-tool-use" @@
    "posttooluse" :> "post-tool-use" @@
    "post-tool-use" :> "post-tool-use"

\* EVENT_DOCS: the event names init_sound_tree creates a directory for
EVENT_DOCS ==
    [codex |-> {"agent-turn-complete", "task-complete", "permission-needed", "task-error",
                "resource-limit", "approval-requested", "session-start"},
     claude |-> {"session-start", "session-start-startup", "session-start-clear",
                 "session-start-resume", "session-start-compact", "session-end",
                 "subagent-start", "subagent-stop", "user-prompt-submit", "stop",
                 "notification", "notification-permission-prompt",
                 "notification-idle-prompt", "notification-elicitation-dialog",
                 "permission-request", "post-tool-use-failure", "pre-compact",
                 "pre-tool-use", "post-tool-use"}]

\* _normalize_codex_event
normalize_codex_event(raw_event) ==
    IF raw_event = "" THEN ""
    ELSE LET lowered == slug(raw_event)
         IN  DictGet(CODEX_ALIAS_MAP, lowered, lowered)

\* _normalize_claude_event
normalize_claude_event(raw_event) ==
    IF raw_event = "" THEN ""
    ELSE LET key == lower(re_sub_not_in(CharsOf(UpperLetters) \cup CharsOf(LowerLetters)
                                           \cup CharsOf(Digits) \cup {"-"},
                                        "", raw_event, FALSE))
         IN  DictGet(CLAUDE_ALIAS_MAP, key, slug(raw_event))

(***************************************************************************)
(* Codex category inference.  A JSON list of strings is List(items); any   *)
(* other JSON value in a list's place is NotAList.                         *)
(***************************************************************************)
List(items) == [is_list |-> TRUE, items |-> items]
NotAList == [is_list |-> FALSE, items |-> <<>>]

\* DEFAULT_CONFIG["codex_keywords"]
DEFAULT_CODEX_KEYWORDS ==
    Dict("permission-needed" :>
             List(<<"needs your approval", "need your approval", "approval requested",
                    "approve this", "approve the command", "allow this command",
                    "permission prompt">>) @@
         "task-error" :>
             List(<<"error", "failed", "unable", "cannot", "can't", "denied",
                    "permission denied", "not found", "timed out", "exception">>) @@
         "resource-limit" :>
             List(<<"rate limit", "quota", "429", "token limit", "context length",
                    "context window">>))

\* the keys in the order the loop of line 560 visits them
InferKeys == <<"permission-needed", "resource-limit", "task-error">>

\* lines 561-566 for one key: some term of its list is a substring of lowered
keyword_hit(keywords, key, lowered) ==
    LET terms == DictGet(keywords, key, List(<<>>))
    IN  /\ terms.is_list
        /\ \E i \in DOMAIN terms.items :
              /\ terms.items[i] # ""
              /\ contains(lower(terms.items[i]), lowered)

\* _infer_codex_event_from_message
infer_codex_event_from_message(message, cfg) ==
    LET lowered == lower(message)
        keywords == DictGet(cfg, "codex_keywords", Dict(EmptyMap))
    IN  IF keywords.kind # "dict" THEN "task-complete"
        ELSE LET hits == {i \in DOMAIN InferKeys : keyword_hit(keywords.m, InferKeys[i], lowered)}
             IN  IF hits = {} THEN "task-complete"
                 ELSE InferKeys[CHOOSE i \in hits : \A j \in hits : i <= j]

(***************************************************************************)
(* Candidate resolution.  The payload text is blank, the text of a JSON    *)
(* value, or any other text; a JSON object is Dict(m) with string values.  *)
(***************************************************************************)
BlankPayload == [kind |-> "blank", value |-> NotADict, text |-> ""]
JsonPayload(value) == [kind |-> "json", value |-> value, text |-> ""]
TextPayload(text) == [kind |-> "text", value |-> NotADict, text |-> text]

\* _parse_payload
parse_payload(raw_payload) ==
    CASE raw_payload.kind = "blank" -> Dict(EmptyMap)
      [] raw_payload.kind = "json" -> raw_payload.value
      [] OTHER -> Dict("event" :> strip(raw_payload.text, Whitespace))

\* a or b, on strings
PyOr(a, b) == IF a # "" THEN a ELSE b

\* mutant: an item already seen is appended again
RECURSIVE dedupe_keep_order_no_seen(_)
dedupe_keep_order_no_seen(items) ==
    IF items = <<>> THEN <<>>
    ELSE IF Head(items) = "" THEN dedupe_keep_order_no_seen(Tail(items))
    ELSE <<Head(items)>> \o dedupe_keep_order_no_seen(Tail(items))

RECURSIVE dedupe_from(_, _, _)
dedupe_from(items, i, out) ==
    IF i > Len(items) THEN out
    ELSE IF items[i] = "" \/ items[i] \in SeqToSet(out) THEN dedupe_from(items, i + 1, out)
    ELSE dedupe_from(items, i + 1, Append(out, items[i]))

\* _dedupe_keep_order
dedupe_keep_order(items) == dedupe_from(items, 1, <<>>)

\* mutant: the inferred category is appended, not inserted in front
codex_candidates_appends_inferred(raw_payload_text, event_override, cfg) ==
    LET payload == parse_payload(raw_payload_text)
        is_dict == payload.kind = "dict"
        payload_event == IF is_dict
                         THEN PyOr(DictGet(payload.m, "type", ""), DictGet(payload.m, "event", ""))
                         ELSE ""
        message == IF is_dict
                   THEN PyOr(DictGet(payload.m, "last-assistant-message", ""),
                             DictGet(payload.m, "message", ""))
                   ELSE ""
        raw_event == PyOr(event_override, payload_event)
        normalized == normalize_codex_event(raw_event)
        payload_is_turn_complete ==
            is_dict /\ DictGet(payload.m, "type", "") = "agent-turn-complete"
        inferred == infer_codex_event_from_message(message, cfg)
        first == CASE normalized = "agent-turn-complete" ->
                          <<inferred, "agent-turn-complete", "task-complete">>
                   [] normalized = "approval-requested" ->
                          <<"approval-requested", "permission-needed">>
                   [] normalized = "permission-needed" ->
                          <<"permission-needed", "approval-requested">>
                   [] normalized # "" /\ normalized \notin
                          {"agent-turn-complete", "approval-requested", "permission-needed"} ->
                          <<normalized>>
                   [] OTHER -> <<"task-complete", "agent-turn-complete">>
    IN  [normalized |-> normalized,
         turn_complete |-> payload_is_turn_complete,
         inferred |-> inferred,
         built |-> IF payload_is_turn_complete /\ normalized # "agent-turn-complete"
                   THEN first \o <<inferred>>
                   ELSE first]

\* resolve_codex_events, lines 571-598: normalized and the list handed to
\* _dedupe_keep_order
codex_candidates(raw_payload_text, event_override, cfg) ==
    LET payload == parse_payload(raw_payload_text)
        is_dict == payload.kind = "dict"
        payload_event == IF is_dict
                         THEN PyOr(DictGet(payload.m, "type", ""), DictGet(payload.m, "event", ""))
                         ELSE ""
        message == IF is_dict
                   THEN PyOr(DictGet(payload.m, "last-assistant-message", ""),
                             DictGet(payload.m, "message", ""))
                   ELSE ""
        raw_event == PyOr(event_override, payload_event)
        normalized == normalize_codex_event(raw_event)
        payload_is_turn_complete ==
            is_dict /\ DictGet(payload.m, "type", "") = "agent-turn-complete"
        inferred == infer_codex_event_from_message(message, cfg)
        first == CASE normalized = "agent-turn-complete" ->
                          <<inferred, "agent-turn-complete", "task-complete">>
                   [] normalized = "approval-requested" ->
                          <<"approval-requested", "permission-needed">>
                   [] normalized = "permission-needed" ->
                          <<"permission-needed", "approval-requested">>
                   [] normalized # "" /\ normalized \notin
                          {"agent-turn-complete", "approval-requested", "permission-needed"} ->
                          <<normalized>>
                   [] OTHER -> <<"task-complete", "agent-turn-complete">>
    IN  [normalized |-> normalized,
         turn_complete |-> payload_is_turn_complete,
         inferred |-> inferred,
         built |-> IF payload_is_turn_complete /\ normalized # "agent-turn-complete"
                   THEN <<inferred>> \o first
                   ELSE first]

\* resolve_codex_events
resolve_codex_events(raw_payload_text, event_override, cfg) ==
    LET r == codex_candidates(raw_payload_text, event_override, cfg)
    IN  [normalized |-> PyOr(r.normalized, "unknown"),
         candidates |-> dedupe_keep_order(r.built)]

\* resolve_claude_events, lines 612-646: normalized and the list handed to
\* _dedupe_keep_order
claude_candidates(raw_payload_text, event_override) ==
    LET payload == parse_payload(raw_payload_text)
        is_dict == payload.kind = "dict"
        payload_event == IF is_dict
                         THEN PyOr(DictGet(payload.m, "hook_event_name", ""),
                                   DictGet(payload.m, "event", ""))
                         ELSE ""
        notification_type == IF is_dict THEN DictGet(payload.m, "notification_type", "") ELSE ""
        source == IF is_dict THEN DictGet(payload.m, "source", "") ELSE ""
        raw_event == PyOr(event_override, payload_event)
        normalized == normalize_claude_event(raw_event)
        source_slug == slug(source)
        notif_slug == slug(notification_type)
        first == CASE normalized = "session-start" ->
                          (IF source_slug # "" THEN <<"session-start-" \o source_slug>> ELSE <<>>)
                          \o <<"session-start">>
                   [] normalized = "notification" ->
                          (IF notif_slug = "" THEN <<>>
                           ELSE IF notif_slug = "permission-prompt"
                                THEN <<"notification-" \o notif_slug, "permission-request">>
                           ELSE <<"notification-" \o notif_slug>>)
                          \o <<"notification">>
                   [] normalized # "" /\ normalized \notin {"session-start", "notification"} ->
                          <<normalized>>
                   [] OTHER -> <<"stop">>
        raw_slug == slug(raw_event)
    IN  [normalized |-> normalized,
         built |-> IF /\ raw_event # ""
                      /\ raw_slug # ""
                      /\ raw_slug # normalized
                      /\ raw_slug \notin DOMAIN CLAUDE_ALIAS_MAP
                   THEN Append(first, raw_slug)
                   ELSE first]

\* resolve_claude_events
resolve_claude_events(raw_payload_text, event_override) ==
    LET r == claude_candidates(raw_payload_text, event_override)
    IN  [normalized |-> PyOr(r.normalized, "unknown"),
         candidates |-> dedupe_keep_order(r.built)]

(***************************************************************************)
(* Inputs of the model.                                                    *)
(***************************************************************************)
\* DEFAULT_CONFIG, the keys the commands read
DEFAULT_CONFIG ==
    [enabled |-> TRUE,
     prevent_overlap |-> FALSE,
     cooldown_seconds |-> Num(0),
     cooldown_by_event |-> Dict(EmptyMap),
     codex_keywords |-> DEFAULT_CODEX_KEYWORDS]

\* load_config: the stored document merged over the defaults; a key the
\* defaults do not know is kept as stored
load_config(stored) ==
    [k \in (DOMAIN DEFAULT_CONFIG) \cup (DOMAIN stored) |->
        IF k \notin DOMAIN stored THEN DEFAULT_CONFIG[k]
        ELSE IF k \in {"cooldown_by_event", "codex_keywords"}
             THEN merge_key(DEFAULT_CONFIG[k], stored[k])
        ELSE stored[k]]

\* the file at CONFIG_PATH: missing, no JSON, bytes that are no UTF-8, a
\* JSON value that is no object, or the JSON object Dict(m)
MissingFile == AbsentKey
MalformedFile == [kind |-> "malformed", m |-> EmptyMap]
UndecodableFile == [kind |-> "undecodable", m |-> EmptyMap]

\* _load_json catches OSError and JSONDecodeError; the UnicodeDecodeError
\* of a file that is no UTF-8 is neither
load_json_raises(file) == file.kind = "undecodable"

\* _load_json
load_json(file, default) == IF file.kind = "dict" THEN file.m ELSE default

\* _save_json
save_json(data) == Dict(data)

\* mutant: the defaults are written back instead of the merged config
load_config_call_saves_defaults(file) ==
    IF load_json_raises(file)
    THEN [raised |-> TRUE, config |-> EmptyMap, file |-> file]
    ELSE [raised |-> FALSE,
          config |-> load_config(load_json(file, EmptyMap)),
          file |-> save_json(DEFAULT_CONFIG)]

\* load_config(): the config returned and the file left at CONFIG_PATH, or
\* the exception of _load_json passed on with the file untouched
load_config_call(file) ==
    IF load_json_raises(file)
    THEN [raised |-> TRUE, config |-> EmptyMap, file |-> file]
    ELSE [raised |-> FALSE,
          config |-> load_config(load_json(file, EmptyMap)),
          file |-> save_json(load_config(load_json(file, EmptyMap)))]

\* the configuration the invocations work with: load_config returned it
\* and left it in the file (lines 271-273)
config == load_json(config_file, EmptyMap)

\* config documents found at CONFIG_PATH
StoredConfigs ==
    {EmptyMap,
     [enabled |-> FALSE],
     [cooldown_seconds |-> Num(2),
      cooldown_by_event |-> Dict([c \in {"task-complete"} |-> Num(1)])],
     [prevent_overlap |-> TRUE, hook_strict_exit |-> TRUE, cooldown_seconds |-> Num(2)]}

Configs == {load_config(stored) : stored \in StoredConfigs}

\* hook invocations: the tool and the candidate list its resolver hands
\* over.  For codex: --event complete; an agent-turn-complete payload
\* without keywords and --event start; the same payload with an error
\* keyword and --event start, or --event complete.  For claude: a
\* SessionStart payload without source; --event task-error.
HookInputs ==
    {<<"codex", <<"task-complete">>>>,
     <<"codex", <<"task-complete", "session-start">>>>,
     <<"codex", <<"task-error", "session-start">>>>,
     <<"codex", <<"task-error", "task-complete">>>>,
     <<"claude", <<"session-start">>>>,
     <<"claude", <<"task-error">>>>}

\* play invocations: --tool and --event
PlayInputs == {<<"codex", "task-complete">>, <<"claude", "task-error">>}

NoResult == [path |-> NoFile, used_event |-> NoEvent]
NoExit == -1
NoCall == [fn |-> "none"]

Init ==
    /\ config_file \in {save_json(cfg) : cfg \in Configs}
    /\ fcntl \in BOOLEAN
    /\ has_player \in BOOLEAN
    /\ disk = NoDocument
    /\ lock_holder = NoProc
    /\ pc = [p \in Procs |-> "idle"]
    /\ cmd = [p \in Procs |-> "none"]
    /\ tool = [p \in Procs |-> "none"]
    /\ candidates = [p \in Procs |-> <<>>]
    /\ state = [p \in Procs |-> DEFAULT_STATE]
    /\ loaded = [p \in Procs |-> DEFAULT_STATE]
    /\ result = [p \in Procs |-> NoResult]
    /\ exit_code = [p \in Procs |-> NoExit]
    /\ clock = 1
    /\ running = {}
    /\ last_fired = [c \in Categories |-> 0]
    /\ overlapped = FALSE
    /\ call = NoCall
    /\ ret = None

env_vars == <<fcntl, has_player, call, ret>>
hist_vars == <<last_fired, overlapped>>

(***************************************************************************)
(* cmd_hook and cmd_play.  A command is three steps on the shared state:   *)
(* it takes the lock and loads the state document, it runs                 *)
(* try_play_event, it saves the document and releases the lock.  What a    *)
(* command does before flock returns touches nothing shared, so it is part *)
(* of the first step.                                                      *)
(***************************************************************************)
\* mutant: flock never blocks
lock_free_noop(holder, has_fcntl) == TRUE

\* TRUE when flock(LOCK_EX) returns; without fcntl state_lock is a no-op
lock_free(holder, has_fcntl) == ~has_fcntl \/ holder = NoProc

\* state_lock, lines 286-292, and state = load_state()
enter_and_load(p) ==
    /\ lock_free(lock_holder, fcntl)
    /\ lock_holder' = IF fcntl THEN p ELSE lock_holder
    /\ state' = [state EXCEPT ![p] = load_state(disk)]
    /\ loaded' = [loaded EXCEPT ![p] = load_state(disk)]
    /\ overlapped' = (overlapped \/ \E q \in Procs \ {p} : pc[q] \in {"loaded", "tried"})
    /\ pc' = [pc EXCEPT ![p] = "loaded"]

\* mutant: the hook does not look at the enabled flag
cmd_hook_begin_ignores_enabled(p) ==
    /\ pc[p] = "idle"
    /\ config_file' = load_config_call(config_file).file
    /\ \E input \in HookInputs :
          /\ cmd' = [cmd EXCEPT ![p] = "hook"]
          /\ tool' = [tool EXCEPT ![p] = input[1]]
          /\ candidates' = [candidates EXCEPT ![p] = input[2]]
          /\ enter_and_load(p)
          /\ UNCHANGED exit_code
    /\ UNCHANGED <<disk, result, clock, running, last_fired>>
    /\ UNCHANGED env_vars

\* cmd_hook, lines 751-762: return 0 when disabled, else resolve, lock, load
cmd_hook_begin(p) ==
    /\ pc[p] = "idle"
    /\ config_file' = load_config_call(config_file).file
    /\ \E input \in HookInputs :
          /\ cmd' = [cmd EXCEPT ![p] = "hook"]
          /\ tool' = [tool EXCEPT ![p] = input[1]]
          /\ IF ~load_config_call(config_file).config.enabled
             THEN /\ pc' = [pc EXCEPT ![p] = "done"]
                  /\ exit_code' = [exit_code EXCEPT ![p] = 0]
                  /\ UNCHANGED <<candidates, lock_holder, state, loaded, overlapped>>
             ELSE /\ candidates' = [candidates EXCEPT ![p] = input[2]]
                  /\ enter_and_load(p)
                  /\ UNCHANGED exit_code
    /\ UNCHANGED <<disk, result, clock, running, last_fired>>
    /\ UNCHANGED env_vars

\* cmd_play, lines 738-740: the candidate list is the one event given
cmd_play_begin(p) ==
    /\ pc[p] = "idle"
    /\ \E input \in PlayInputs :
          /\ cmd' = [cmd EXCEPT ![p] = "play"]
          /\ tool' = [tool EXCEPT ![p] = input[1]]
          /\ candidates' = [candidates EXCEPT ![p] = <<input[2]>>]
    /\ enter_and_load(p)
    /\ config_file' = load_config_call(config_file).file
    /\ UNCHANGED <<disk, result, exit_code, clock, running, last_fired>>
    /\ UNCHANGED env_vars

\* try_play_event(tool, candidates, config, state), lines 741 and 763
do_try_play_event(p) ==
    /\ pc[p] = "loaded"
    /\ ~overlap_probe_raises(config, state[p])
    /\ \E out \in try_play_event(tool[p], candidates[p], config, state[p],
                                 clock, running, has_player) :
          /\ state' = [state EXCEPT ![p] = out.state]
          /\ result' = [result EXCEPT ![p] =
                           [path |-> out.path, used_event |-> out.used_event]]
          /\ running' = IF out.pid = None THEN running ELSE running \cup {out.pid[1]}
          /\ last_fired' = IF out.used_event = NoEvent THEN last_fired
                            ELSE [last_fired EXCEPT ![out.used_event] = clock]
    /\ pc' = [pc EXCEPT ![p] = "tried"]
    /\ UNCHANGED <<disk, lock_holder, cmd, tool, candidates, loaded, exit_code,
                   clock, overlapped>>
    /\ UNCHANGED <<env_vars, config_file>>

\* try_play_event raises: the exception leaves state_lock through its
\* finally (line 296), save_state is not reached, the interpreter prints the
\* traceback and exits with 1
try_play_event_raises(p) ==
    /\ pc[p] = "loaded"
    /\ overlap_probe_raises(config, state[p])
    /\ lock_holder' = IF fcntl THEN NoProc ELSE lock_holder
    /\ exit_code' = [exit_code EXCEPT ![p] = 1]
    /\ pc' = [pc EXCEPT ![p] = "done"]
    /\ UNCHANGED <<disk, cmd, tool, candidates, state, loaded, result, clock,
                   running>>
    /\ UNCHANGED <<env_vars, config_file, hist_vars>>

\* the value cmd_hook returns, line 778
cmd_hook_exit(cfg, cands, res) == 0

\* the value cmd_play returns, lines 743-747
cmd_play_exit(res) == IF res.path = NoFile THEN 1 ELSE 0

\* save_state(state), the end of state_lock (line 296) and the return
save_and_return(p) ==
    /\ pc[p] = "tried"
    /\ disk' = save_state(state[p])
    /\ lock_holder' = IF fcntl THEN NoProc ELSE lock_holder
    /\ exit_code' = [exit_code EXCEPT ![p] =
                        IF cmd[p] = "hook"
                        THEN cmd_hook_exit(config, candidates[p], result[p])
                        ELSE cmd_play_exit(result[p])]
    /\ pc' = [pc EXCEPT ![p] = "done"]
    /\ UNCHANGED <<cmd, tool, candidates, state, loaded, result, clock,
                   running>>
    /\ UNCHANGED <<env_vars, config_file, hist_vars>>

\* the process ends; its memory is gone
process_exit(p) ==
    /\ pc[p] = "done"
    /\ pc' = [pc EXCEPT ![p] = "exited"]
    /\ cmd' = [cmd EXCEPT ![p] = "none"]
    /\ tool' = [tool EXCEPT ![p] = "none"]
    /\ candidates' = [candidates EXCEPT ![p] = <<>>]
    /\ state' = [state EXCEPT ![p] = DEFAULT_STATE]
    /\ loaded' = [loaded EXCEPT ![p] = DEFAULT_STATE]
    /\ result' = [result EXCEPT ![p] = NoResult]
    /\ exit_code' = [exit_code EXCEPT ![p] = NoExit]
    /\ UNCHANGED <<disk, lock_holder, clock, running>>
    /\ UNCHANGED <<env_vars, config_file, hist_vars>>

(***************************************************************************)
(* The environment: time passes, player processes end.                     *)
(***************************************************************************)
tick ==
    /\ clock < MaxTime
    /\ clock' = clock + 1
    /\ UNCHANGED <<disk, lock_holder, pc, cmd, tool, candidates, state, loaded,
                   result, exit_code, running>>
    /\ UNCHANGED <<env_vars, config_file, hist_vars>>

player_exit ==
    /\ \E pid \in running : running' = running \ {pid}
    /\ UNCHANGED <<disk, lock_holder, pc, cmd, tool, candidates, state, loaded,
                   result, exit_code, clock>>
    /\ UNCHANGED <<env_vars, config_file, hist_vars>>

Next ==
    \/ \E p \in Procs : cmd_hook_begin(p)
    \/ \E p \in Procs : cmd_play_begin(p)
    \/ \E p \in Procs : do_try_play_event(p)
    \/ \E p \in Procs : save_and_return(p)
    \/ \E p \in Procs : process_exit(p)
    \/ tick
    \/ player_exit

Spec == Init /\ [][Next]_vars

(***************************************************************************)
(* Pure functions, applied once to arguments drawn from bounded sets.  The *)
(* commands stand still in these specifications.                           *)
(***************************************************************************)
MaxNow == 16      \* now_ts handed to _on_cooldown: 1..MaxNow
MaxFiles == 3     \* files of the directory handed to _pick_sound

commands_idle ==
    /\ fcntl = TRUE
    /\ has_player = TRUE
    /\ disk = NoDocument
    /\ lock_holder = NoProc
    /\ pc = [p \in Procs |-> "idle"]
    /\ cmd = [p \in Procs |-> "none"]
    /\ tool = [p \in Procs |-> "none"]
    /\ candidates = [p \in Procs |-> <<>>]
    /\ state = [p \in Procs |-> DEFAULT_STATE]
    /\ loaded = [p \in Procs |-> DEFAULT_STATE]
    /\ result = [p \in Procs |-> NoResult]
    /\ exit_code = [p \in Procs |-> NoExit]
    /\ clock = 1
    /\ running = {}
    /\ last_fired = [c \in Categories |-> 0]
    /\ overlapped = FALSE

command_vars == <<fcntl, has_player, disk, lock_holder, pc, cmd, tool,
                  candidates, state, loaded, result, exit_code, clock, running,
                  last_fired, overlapped>>

\* raw JSON numbers: unparseable, negative, zero, positive
RawThresholds == {None, Num(-1), Num(0), Num(2), Num(10)}

CooldownConfigs ==
    {[DEFAULT_CONFIG EXCEPT !.cooldown_seconds = cs, !.cooldown_by_event = by] :
        cs \in RawThresholds,
        by \in {NotADict, Dict(EmptyMap), Dict([c \in {"task-error"} |-> Num(10)])}
               \cup {Dict([c \in {"task-complete"} |-> v]) : v \in RawThresholds}}

CooldownStates ==
    {[DEFAULT_STATE EXCEPT !.last_event_ts = ts] :
        ts \in {AbsentKey, NotADict, Dict(EmptyMap),
                Dict([c \in {"task-error"} |-> Num(5)])}
               \cup {Dict([c \in {"task-complete"} |-> v]) :
                        v \in {None, Num(-1), Num(0), Num(1), Num(5)}}}

InitCooldown ==
    /\ commands_idle
    /\ config_file = save_json(DEFAULT_CONFIG)
    /\ call \in [fn : {"on_cooldown"}, cfg : CooldownConfigs, st : CooldownStates,
                 event_name : {"task-complete"}, now_ts : 1..MaxNow]
    /\ ret = None

apply_on_cooldown ==
    /\ call.fn = "on_cooldown"
    /\ ret = None
    /\ ret' = <<on_cooldown(call.cfg, call.st, call.event_name, call.now_ts)>>
    /\ UNCHANGED <<command_vars, config_file, call>>

SpecCooldown == InitCooldown /\ [][apply_on_cooldown]_vars

PickFiles == {File(i, ".wav") : i \in 1..MaxFiles}
PickKey == <<"codex", "task-complete">>
OtherKey == <<"claude", "task-complete">>

PickStates ==
    {[DEFAULT_STATE EXCEPT !.last_played = lp] :
        lp \in {AbsentKey, NotADict, Dict(EmptyMap)}
               \cup {Dict([k \in {PickKey} |-> f]) : f \in PickFiles \cup {File(7, ".mp3")}}
               \cup {Dict([k \in {OtherKey} |-> f]) : f \in PickFiles}}

InitPick ==
    /\ commands_idle
    /\ config_file = save_json(DEFAULT_CONFIG)
    /\ call \in [fn : {"pick_sound"}, st : PickStates, state_key : {PickKey},
                 files : {sorted(S) : S \in (SUBSET PickFiles) \ {{}}}]
    /\ ret = None

\* _pick_sound: random.choice raises IndexError on an empty pool
apply_pick_sound ==
    /\ call.fn = "pick_sound"
    /\ ret = None
    /\ LET pool == pick_pool(call.st, call.state_key, call.files)
       IN  IF pool = <<>>
           THEN ret' = <<[raised |-> TRUE, chosen |-> NoFile, state |-> call.st]>>
           ELSE \E chosen \in SeqToSet(pool) :
                   ret' = <<[raised |-> FALSE, chosen |-> chosen,
                             state |-> pick_sound(call.st, call.state_key, chosen)]>>
    /\ UNCHANGED <<command_vars, config_file, call>>

SpecPick == InitPick /\ [][apply_pick_sound]_vars

(***************************************************************************)
(* _infer_codex_event_from_message applied once.                           *)
(***************************************************************************)
InferMessages ==
    {"",
     "All tests pass.",
     "Error: rate limit exceeded, quota 429",
     "Approval requested: rate limit reached",
     "Needs your approval; the last command FAILED",
     "Permission denied",
     "Context window is full, compacting",
     "QUOTA",
     "Allow this command?",
     "Timed Out"}

\* config.json as found by load_config, for the keys the inferrer reads
InferStoredConfigs ==
    {EmptyMap,
     [codex_infer_permission_from_text |-> FALSE],
     [codex_infer_permission_from_text |-> TRUE],
     [codex_keywords |-> NotADict],
     [codex_keywords |-> Dict(EmptyMap)],
     [codex_keywords |-> Dict("permission-needed" :> List(<<>>))],
     [codex_keywords |-> Dict("task-error" :> NotAList)],
     [codex_keywords |-> Dict("resource-limit" :> List(<<"", "Quota">>))],
     [codex_keywords |-> Dict("context-compact" :> List(<<"context window", "compact">>)),
      codex_infer_permission_from_text |-> TRUE]}

InferConfigs == {load_config(stored) : stored \in InferStoredConfigs}

InitInfer ==
    /\ commands_idle
    /\ config_file = save_json(DEFAULT_CONFIG)
    /\ call \in [fn : {"infer_codex_event_from_message"}, message : InferMessages,
                 cfg : InferConfigs]
    /\ ret = None

apply_infer_codex_event_from_message ==
    /\ call.fn = "infer_codex_event_from_message"
    /\ ret = None
    /\ ret' = <<infer_codex_event_from_message(call.message, call.cfg)>>
    /\ UNCHANGED <<command_vars, config_file, call>>

SpecInfer == InitInfer /\ [][apply_infer_codex_event_from_message]_vars

(***************************************************************************)
(* resolve_codex_events and resolve_claude_events applied once, as         *)
(* cmd_hook calls them (lines 755-759).                                    *)
(***************************************************************************)
TurnComplete(message) ==
    JsonPayload(Dict("type" :> "agent-turn-complete" @@ "last-assistant-message" :> message))

HookPayloads ==
    {BlankPayload,
     TextPayload("agent-turn-complete"),
     TextPayload(" Foo Bar "),
     JsonPayload(NotADict),
     JsonPayload(Dict(EmptyMap)),
     TurnComplete(""),
     TurnComplete("All tests pass."),
     TurnComplete("Error: rate limit exceeded, quota 429"),
     TurnComplete("Needs your approval; the last command FAILED"),
     TurnComplete("Build failed"),
     JsonPayload(Dict("type" :> "Agent Turn Complete" @@ "message" :> "Build failed")),
     JsonPayload(Dict("type" :> "approval-requested")),
     JsonPayload(Dict("event" :> "error")),
     JsonPayload(Dict("event" :> "context-compact")),
     JsonPayload(Dict("hook_event_name" :> "Notification" @@
                      "notification_type" :> "permission_prompt")),
     JsonPayload(Dict("hook_event_name" :> "Notification" @@
                      "notification_type" :> "idle_prompt")),
     JsonPayload(Dict("hook_event_name" :> "Notification")),
     JsonPayload(Dict("hook_event_name" :> "SessionStart" @@ "source" :> "startup")),
     JsonPayload(Dict("hook_event_name" :> "SessionStart")),
     JsonPayload(Dict("hook_event_name" :> "Session_Start")),
     JsonPayload(Dict("hook_event_name" :> "PreCompact")),
     JsonPayload(Dict("hook_event_name" :> "Stop")),
     JsonPayload(Dict("hook_event_name" :> "SomeFutureEvent"))}

\* --event
EventOverrides ==
    {"", "start", "complete", "permission", "Approval Requested", "agent-turn-complete",
     "Notification", "context-compact", "--"}

InitResolve ==
    /\ commands_idle
    /\ config_file = save_json(DEFAULT_CONFIG)
    /\ call \in [fn : {"resolve_events"}, tool : Tools, payload_text : HookPayloads,
                 event_override : EventOverrides, cfg : {DEFAULT_CONFIG}]
    /\ ret = None

apply_resolve_codex_events ==
    /\ call.fn = "resolve_events"
    /\ call.tool = "codex"
    /\ ret = None
    /\ LET r == codex_candidates(call.payload_text, call.event_override, call.cfg)
           out == resolve_codex_events(call.payload_text, call.event_override, call.cfg)
       IN  ret' = <<[normalized |-> out.normalized, built |-> r.built,
                     candidates |-> out.candidates]>>
    /\ UNCHANGED <<command_vars, config_file, call>>

apply_resolve_claude_events ==
    /\ call.fn = "resolve_events"
    /\ call.tool # "codex"
    /\ ret = None
    /\ LET r == claude_candidates(call.payload_text, call.event_override)
           out == resolve_claude_events(call.payload_text, call.event_override)
       IN  ret' = <<[normalized |-> out.normalized, built |-> r.built,
                     candidates |-> out.candidates]>>
    /\ UNCHANGED <<command_vars, config_file, call>>

SpecResolve ==
    InitResolve /\ [][apply_resolve_codex_events \/ apply_resolve_claude_events]_vars

(***************************************************************************)
(* _normalize_codex_event and _normalize_claude_event applied once.        *)
(***************************************************************************)
RawEvents ==
    (DOMAIN CODEX_ALIAS_MAP) \cup (DOMAIN CLAUDE_ALIAS_MAP)
    \cup {"", "Agent Turn Complete", "SessionStart", "Session_Start", "Pre Compact",
          "SomeFutureEvent", "Rate Limit", " done ", "context-compact", "--"}

InitNormalize ==
    /\ commands_idle
    /\ config_file = save_json(DEFAULT_CONFIG)
    /\ call \in [fn : {"normalize_codex_event", "normalize_claude_event"},
                 raw_event : RawEvents]
    /\ ret = None

apply_normalize_codex_event ==
    /\ call.fn = "normalize_codex_event"
    /\ ret = None
    /\ ret' = <<normalize_codex_event(call.raw_event)>>
    /\ UNCHANGED <<command_vars, config_file, call>>

apply_normalize_claude_event ==
    /\ call.fn = "normalize_claude_event"
    /\ ret = None
    /\ ret' = <<normalize_claude_event(call.raw_event)>>
    /\ UNCHANGED <<command_vars, config_file, call>>

SpecNormalize ==
    InitNormalize /\ [][apply_normalize_codex_event \/ apply_normalize_claude_event]_vars

(***************************************************************************)
(* load_config() called up to MaxLoads times on a config file, with no     *)
(* other write in between.                                                 *)
(***************************************************************************)
MaxLoads == 2

\* one stored value per key, or the key absent (a one-element tuple holds
\* the value)
StoredKeyValues ==
    [enabled : {<<>>, <<FALSE>>},
     cooldown_seconds : {<<>>, <<Num(2)>>, <<None>>},
     cooldown_by_event : {<<>>, <<NotADict>>,
                          <<Dict([c \in {"task-error"} |-> Num(1)])>>},
     codex_keywords : {<<>>, <<NotADict>>,
                       <<Dict("task-error" :> List(<<"boom">>) @@
                              "context-compact" :> List(<<"compact">>))>>},
     hook_strict_exit : {<<>>, <<TRUE>>}]

stored_document(choice) ==
    [k \in {key \in DOMAIN choice : choice[key] # <<>>} |-> choice[k][1]]

ConfigFiles ==
    {MissingFile, MalformedFile, UndecodableFile, NotADict}
    \cup {Dict(stored_document(choice)) : choice \in StoredKeyValues}

InitLoadConfig ==
    /\ commands_idle
    /\ config_file \in ConfigFiles
    /\ call = [fn |-> "load_config"]
    /\ ret = <<>>

\* load_config: ret collects what the successive calls returned and left
\* on disk
apply_load_config ==
    /\ call.fn = "load_config"
    /\ Len(ret) < MaxLoads
    /\ LET out == load_config_call(config_file)
       IN  /\ config_file' = out.file
           /\ ret' = Append(ret, out)
    /\ UNCHANGED <<command_vars, call>>

SpecLoadConfig == InitLoadConfig /\ [][apply_load_config]_vars

(***************************************************************************)
(* Vocabulary of the properties.                                           *)
(***************************************************************************)
\* p is between its load_state and its save_state
InCycle(p) == pc[p] \in {"loaded", "tried"}

\* the step in which p runs try_play_event
TryStep(p) == pc[p] = "loaded" /\ pc'[p] = "tried"

\* the pid stored in st is that of a live process
StoredPidAlive(st) == st.playback_pid # None /\ st.playback_pid[1] \in running

\* the category's directory for the tool holds a file with a configured extension
HasEligibleFile(tool_name, c) ==
    /\ SoundTree[<<tool_name, c>>].is_dir
    /\ \E f \in SoundTree[<<tool_name, c>>].entries : f.ext \in Extensions

Played(p) == result[p].used_event # NoEvent

(***************************************************************************)
(* C1.  While the file lock is available, the read-modify-write cycles of  *)
(* two invocations never overlap, and the document an invocation is about  *)
(* to overwrite is the one it loaded: no update saved by the other         *)
(* invocation is lost.                                                     *)
(***************************************************************************)
C1_CyclesSerialized ==
    fcntl =>
        /\ \A p, q \in Procs : (p # q /\ InCycle(p)) => ~InCycle(q)
        /\ \A p \in Procs : InCycle(p) => load_state(disk) = loaded[p]

\* two invocations played different categories one after the other under the
\* lock, and the second one's state holds both timestamps
C1_Witness ==
    /\ fcntl
    /\ \E p, q \in Procs :
          /\ p # q
          /\ pc[q] = "done" /\ Played(q)
          /\ pc[p] = "tried" /\ Played(p)
          /\ result[p].used_event # result[q].used_event
          /\ result[q].used_event \in DOMAIN state[p].last_event_ts.m
          /\ result[p].used_event \in DOMAIN state[p].last_event_ts.m

(***************************************************************************)
(* C2.  With prevent_overlap enabled and the stored playback_pid alive,    *)
(* try_play_event returns (no file, no category), dispatches nothing and   *)
(* leaves the state dict exactly as it was loaded.                         *)
(***************************************************************************)
C2_OverlapAbortKeepsState ==
    [][\A p \in Procs :
          (TryStep(p) /\ config.prevent_overlap /\ StoredPidAlive(state[p])) =>
              /\ result'[p] = NoResult
              /\ state'[p] = state[p]
              /\ state'[p] = loaded[p]
              /\ running' = running
              /\ last_fired' = last_fired]_vars

\* the guard ended a call whose first candidate had files and had never fired
C2_Witness ==
    \E p \in Procs :
        /\ pc[p] = "tried"
        /\ config.prevent_overlap
        /\ StoredPidAlive(state[p])
        /\ result[p] = NoResult
        /\ HasEligibleFile(tool[p], candidates[p][1])
        /\ candidates[p][1] \notin DOMAIN state[p].last_event_ts.m

(***************************************************************************)
(* C3.  With prevent_overlap enabled and the lock available, at most one   *)
(* dispatched player process is alive at any time.                         *)
(***************************************************************************)
C3_OnePlayerAlive ==
    (config.prevent_overlap /\ fcntl) => Cardinality(running) <= 1

\* a second player was dispatched after the first one had ended
C3_Witness ==
    /\ config.prevent_overlap /\ fcntl
    /\ Cardinality(running) = 1
    /\ \E p, q \in Procs :
          /\ p # q
          /\ pc[q] = "done" /\ Played(q) /\ state[q].playback_pid # None
          /\ pc[p] = "tried" /\ Played(p) /\ state[p].playback_pid # None

(***************************************************************************)
(* C4.  For a category whose effective cooldown threshold s is positive,   *)
(* two successful firings of the category are at least s apart, whatever   *)
(* tools and commands fire it, in any sequence of invocations (no          *)
(* invocation loads the state while another is between load and save).     *)
(***************************************************************************)
\* cooldown_by_event[c] if present, else cooldown_seconds
EffectiveThreshold(c) ==
    IF c \in DOMAIN config.cooldown_by_event.m
    THEN config.cooldown_by_event.m[c][1]
    ELSE config.cooldown_seconds[1]

C4_CooldownSpacing ==
    [][\A p \in Procs, c \in Categories :
          (/\ ~overlapped
           /\ TryStep(p)
           /\ result'[p].used_event = c
           /\ EffectiveThreshold(c) > 0
           /\ last_fired[c] > 0) =>
              clock - last_fired[c] >= EffectiveThreshold(c)]_vars

\* a category with a positive threshold fired a second time, by another tool
C4_Witness ==
    /\ ~overlapped
    /\ \E p, q \in Procs :
          /\ p # q
          /\ pc[q] = "done" /\ pc[p] = "tried"
          /\ Played(p) /\ result[q].used_event = result[p].used_event
          /\ tool[p] # tool[q]
          /\ EffectiveThreshold(result[p].used_event) > 0
          /\ result[p].used_event \in DOMAIN loaded[p].last_event_ts.m

(***************************************************************************)
(* C5.  _on_cooldown(category, now) is true exactly when the effective     *)
(* threshold (cooldown_by_event[category] if present, else                 *)
(* cooldown_seconds) is positive, last_event_ts[category] is present and   *)
(* positive, and now - last_event_ts[category] is below the threshold:     *)
(* with threshold 10 and timestamp T, true at T+9 and false from T+10 on.  *)
(***************************************************************************)
C5_Threshold ==
    LET by == call.cfg.cooldown_by_event
    IN  IF by.kind = "dict" /\ call.event_name \in DOMAIN by.m
        THEN by.m[call.event_name]
        ELSE call.cfg.cooldown_seconds

C5_LastTs ==
    LET ts == call.st.last_event_ts
    IN  IF ts.kind = "dict" /\ call.event_name \in DOMAIN ts.m
        THEN ts.m[call.event_name]
        ELSE None

C5_OnCooldownExactly ==
    (call.fn = "on_cooldown" /\ ret # None) =>
        /\ ret[1] = (/\ C5_Threshold # None /\ C5_Threshold[1] > 0
                     /\ C5_LastTs # None /\ C5_LastTs[1] > 0
                     /\ call.now_ts - C5_LastTs[1] < C5_Threshold[1])
        /\ (C5_Threshold = Num(10) /\ C5_LastTs # None /\ C5_LastTs[1] > 0) =>
               /\ call.now_ts = C5_LastTs[1] + 9 => ret[1] = TRUE
               /\ call.now_ts >= C5_LastTs[1] + 10 => ret[1] = FALSE

\* the per-event threshold 10 overrides a global one, and T+9 is on cooldown
C5_Witness ==
    /\ call.fn = "on_cooldown" /\ ret = <<TRUE>>
    /\ call.cfg.cooldown_by_event = Dict([c \in {"task-complete"} |-> Num(10)])
    /\ call.cfg.cooldown_seconds = Num(2)
    /\ C5_LastTs = Num(5)
    /\ call.now_ts = 14

(***************************************************************************)
(* C6.  Unless the overlap guard ends the call, try_play_event plays the   *)
(* first candidate, in list order, that is not on cooldown and whose       *)
(* directory holds an eligible file; it plays a file of that directory,    *)
(* fires no other category, and plays nothing when no candidate qualifies. *)
(***************************************************************************)
Qualifying(p) ==
    {i \in 1..Len(candidates[p]) :
        /\ ~on_cooldown(config, state[p], candidates[p][i], clock)
        /\ HasEligibleFile(tool[p], candidates[p][i])}

C6_FirstQualifyingCandidate ==
    [][\A p \in Procs :
          (TryStep(p) /\ ~(config.prevent_overlap /\ StoredPidAlive(state[p]))) =>
              IF Qualifying(p) = {}
              THEN /\ result'[p] = NoResult
                   /\ running' = running
                   /\ last_fired' = last_fired
              ELSE LET first == CHOOSE i \in Qualifying(p) :
                                    \A j \in Qualifying(p) : i <= j
                       c == candidates[p][first]
                   IN  /\ result'[p].used_event = c
                       /\ result'[p].path \in SoundTree[<<tool[p], c>>].entries
                       /\ result'[p].path.ext \in Extensions
                       /\ \A d \in Categories \ {c} : last_fired'[d] = last_fired[d]]_vars

\* the second candidate played although the first one's directory has files:
\* the first one was on cooldown
C6_Witness ==
    \E p \in Procs :
        /\ pc[p] = "tried"
        /\ Len(candidates[p]) = 2
        /\ result[p].used_event = candidates[p][2]
        /\ HasEligibleFile(tool[p], candidates[p][1])

(***************************************************************************)
(* C7.  When the category's directory holds two or more eligible files,    *)
(* the file played is never last_played[tool:category] as it was before    *)
(* the call; in a sequence of invocations it differs from the file the     *)
(* previous play of that tool:category stored.                             *)
(***************************************************************************)
EligibleFiles(tool_name, c) ==
    IF SoundTree[<<tool_name, c>>].is_dir
    THEN {f \in SoundTree[<<tool_name, c>>].entries : f.ext \in Extensions}
    ELSE {}

C7_NoImmediateRepeat ==
    [][\A p \in Procs :
          LET c == result'[p].used_event
              key == <<tool[p], c>>
          IN  (/\ TryStep(p)
               /\ c # NoEvent
               /\ Cardinality(EligibleFiles(tool[p], c)) >= 2) =>
                  /\ result'[p].path # DictGet(state[p].last_played.m, key, NoFile)
                  /\ ~overlapped => result'[p].path #
                                 DictGet(load_state(disk).last_played.m, key, NoFile)]_vars

\* the second play of a two-file category took the other file
C7_Witness ==
    \E p \in Procs :
        LET key == <<tool[p], result[p].used_event>>
        IN  /\ pc[p] = "tried"
            /\ Played(p)
            /\ Cardinality(EligibleFiles(tool[p], result[p].used_event)) = 2
            /\ key \in DOMAIN loaded[p].last_played.m
            /\ result[p].path # loaded[p].last_played.m[key]

(***************************************************************************)
(* C8.  _pick_sound never fails on a non-empty file list and returns a     *)
(* member of the list, whatever last_played holds (absent, not a mapping,  *)
(* the only file); with one file it returns that file.                     *)
(***************************************************************************)
C8_PickNeverFails ==
    (call.fn = "pick_sound" /\ ret # None) =>
        /\ ~ret[1].raised
        /\ ret[1].chosen \in SeqToSet(call.files)
        /\ Len(call.files) = 1 => ret[1].chosen = call.files[1]

\* the only file is the last-played one, and it is returned
C8_Witness ==
    /\ call.fn = "pick_sound" /\ ret # None
    /\ Len(call.files) = 1
    /\ call.st.last_played = Dict([k \in {PickKey} |-> call.files[1]])
    /\ ret[1].chosen = call.files[1]

(***************************************************************************)
(* C9.  When try_play_event plays category c for tool t and returns file   *)
(* f, then last_played[t:c] = f, last_event_ts[c] is the time of the call, *)
(* playback_pid is what play_sound returned, and every other last_played   *)
(* and last_event_ts entry is as before.                                   *)
(***************************************************************************)
C9_PlayRecordsExactly ==
    [][\A p \in Procs :
          LET c == result'[p].used_event
              key == <<tool[p], c>>
              old == state[p]
              new == state'[p]
          IN  (TryStep(p) /\ c # NoEvent) =>
                  /\ new.last_played.kind = "dict" /\ new.last_event_ts.kind = "dict"
                  /\ DOMAIN new.last_played.m = (DOMAIN old.last_played.m) \cup {key}
                  /\ DOMAIN new.last_event_ts.m = (DOMAIN old.last_event_ts.m) \cup {c}
                  /\ new.last_played.m[key] = result'[p].path
                  /\ new.last_event_ts.m[c] = Num(clock)
                  /\ new.playback_pid = IF running' = running THEN None
                                        ELSE Num(CHOOSE pid \in running' \ running : TRUE)
                  /\ \A k \in (DOMAIN old.last_played.m) \ {key} :
                        new.last_played.m[k] = old.last_played.m[k]
                  /\ \A d \in (DOMAIN old.last_event_ts.m) \ {c} :
                        new.last_event_ts.m[d] = old.last_event_ts.m[d]]_vars

\* a play with a dispatched player, on a state that held another category's entries
C9_Witness ==
    \E p \in Procs :
        /\ pc[p] = "tried"
        /\ Played(p)
        /\ state[p].playback_pid # None
        /\ (DOMAIN loaded[p].last_event_ts.m) \ {result[p].used_event} # {}
        /\ (DOMAIN loaded[p].last_played.m) \ {<<tool[p], result[p].used_event>>} # {}

(***************************************************************************)
(* C10.  A hook invocation ends as unmapped (empty candidate list),        *)
(* no-sound (nothing played) or played, and exits in strict-exit mode with *)
(* 2, 3 or 0 respectively, in non-strict mode with 0.                      *)
(***************************************************************************)
StrictExit == "hook_strict_exit" \in DOMAIN config /\ config.hook_strict_exit

HookOutcome(p) ==
    IF candidates[p] = <<>> THEN "unmapped"
    ELSE IF Played(p) THEN "played"
    ELSE "no-sound"

C10_StrictExitCodes ==
    \A p \in Procs :
        (pc[p] = "done" /\ cmd[p] = "hook") =>
            exit_code[p] =
                IF ~StrictExit THEN 0
                ELSE CASE HookOutcome(p) = "unmapped" -> 2
                       [] HookOutcome(p) = "no-sound" -> 3
                       [] OTHER -> 0

(***************************************************************************)
(* Vocabulary of the resolution properties.                                *)
(***************************************************************************)
\* the pure function of the call has returned
Returned(fn) == call.fn = fn /\ ret # None

\* the flag gating permission-style inference
PermissionInferenceEnabled(cfg) ==
    DictGet(cfg, "codex_infer_permission_from_text", FALSE)

\* the first key of order with a keyword in the lower-cased message, or
\* task-complete
FirstMatchingGroup(order, message, cfg) ==
    LET keywords == DictGet(cfg, "codex_keywords", Dict(EmptyMap))
        hits == IF keywords.kind # "dict" THEN {}
                ELSE {i \in DOMAIN order : keyword_hit(keywords.m, order[i], lower(message))}
    IN  IF hits = {} THEN "task-complete"
        ELSE order[CHOOSE i \in hits : \A j \in hits : i <= j]

(***************************************************************************)
(* C11.  The codex inferrer tries the keyword groups in the order          *)
(* context-compact, resource-limit, permission-needed (only when the flag  *)
(* is set), task-error, and returns the first group with a keyword that is *)
(* a case-insensitive substring of the message, task-complete when none    *)
(* matches.                                                                *)
(***************************************************************************)
C11_InferPriorityOrder ==
    Returned("infer_codex_event_from_message") =>
        ret[1] = FirstMatchingGroup(
                     IF PermissionInferenceEnabled(call.cfg)
                     THEN <<"context-compact", "resource-limit", "permission-needed",
                            "task-error">>
                     ELSE <<"context-compact", "resource-limit", "task-error">>,
                     call.message, call.cfg)

(***************************************************************************)
(* C12.  While the flag codex_infer_permission_from_text is false (its     *)
(* default), the codex inferrer never returns permission-needed, whatever  *)
(* the message and the keyword configuration.                              *)
(***************************************************************************)
C12_PermissionGatedByFlag ==
    (Returned("infer_codex_event_from_message") /\ ~PermissionInferenceEnabled(call.cfg)) =>
        ret[1] # "permission-needed"

(***************************************************************************)
(* C13.  For a codex event that is the raw agent-turn-complete signal the  *)
(* candidate list is exactly the inferred category, followed by            *)
(* resource-limit only when that category is context-compact.              *)
(***************************************************************************)
C13_TurnCompleteCandidates ==
    (Returned("resolve_events") /\ call.tool = "codex"
        /\ ret[1].normalized = "agent-turn-complete") =>
        LET inferred == codex_candidates(call.payload_text, call.event_override,
                                         call.cfg).inferred
        IN  ret[1].candidates = IF inferred = "context-compact"
                                THEN <<inferred, "resource-limit">>
                                ELSE <<inferred>>

(***************************************************************************)
(* C14.  For a claude event that normalizes to notification the candidates *)
(* are permission-needed or task-complete for a known notification_type    *)
(* and none for an unrecognized one; hook_event_name Notification with     *)
(* notification_type permission_prompt yields exactly permission-needed.   *)
(***************************************************************************)
PermissionPromptNotification ==
    JsonPayload(Dict("hook_event_name" :> "Notification" @@
                     "notification_type" :> "permission_prompt"))

C14_NotificationSubtype ==
    (Returned("resolve_events") /\ call.tool = "claude"
        /\ ret[1].normalized = "notification") =>
        /\ SeqToSet(ret[1].candidates) \subseteq {"permission-needed", "task-complete"}
        /\ (call.payload_text = PermissionPromptNotification /\ call.event_override = "") =>
               ret[1].candidates = <<"permission-needed">>

(***************************************************************************)
(* C15.  A claude event identifier that matches no alias and no known      *)
(* category name resolves to the empty candidate list.                     *)
(***************************************************************************)
C15_UnknownClaudeEventUnmapped ==
    (Returned("resolve_events") /\ call.tool = "claude"
        /\ ret[1].normalized \notin EVENT_DOCS.claude \cup {"unknown"}) =>
        ret[1].candidates = <<>>

(***************************************************************************)
(* C16.  In the candidate list of either resolver, context-compact is      *)
(* immediately followed by resource-limit.                                 *)
(***************************************************************************)
C16_CompactionFallback ==
    Returned("resolve_events") =>
        \A i \in DOMAIN ret[1].candidates :
            ret[1].candidates[i] = "context-compact" =>
                /\ i < Len(ret[1].candidates)
                /\ ret[1].candidates[i + 1] = "resource-limit"

(***************************************************************************)
(* C17.  The candidate list either resolver returns holds no empty string  *)
(* and no category twice, holds every non-empty element of the list built  *)
(* before deduplication, and orders its elements by their first occurrence *)
(* in that list.                                                           *)
(***************************************************************************)
FirstIndex(items, x) == CHOOSE i \in DOMAIN items : items[i] = x /\ \A j \in 1..(i - 1) : items[j] # x

C17_DedupeKeepsFirstOccurrence ==
    Returned("resolve_events") =>
        LET built == ret[1].built
            cands == ret[1].candidates
        IN  /\ "" \notin SeqToSet(cands)
            /\ \A i, j \in DOMAIN cands : cands[i] = cands[j] => i = j
            /\ SeqToSet(cands) = SeqToSet(built) \ {""}
            /\ \A i, j \in DOMAIN cands :
                   i < j => FirstIndex(built, cands[i]) < FirstIndex(built, cands[j])

\* resolve_codex_events has built a list that names a category twice
C17_Witness ==
    /\ Returned("resolve_events")
    /\ call.tool = "codex"
    /\ ret[1].built = <<"task-complete", "agent-turn-complete", "task-complete">>
    /\ ret[1].candidates = <<"task-complete", "agent-turn-complete">>

(***************************************************************************)
(* C18.  Normalizing a key of an alias table yields the category the table *)
(* maps it to: _normalize_codex_event on the keys of CODEX_ALIAS_MAP,      *)
(* _normalize_claude_event on the keys of CLAUDE_ALIAS_MAP.                *)
(***************************************************************************)
C18_AliasKeysNormalize ==
    /\ (Returned("normalize_codex_event") /\ call.raw_event \in DOMAIN CODEX_ALIAS_MAP) =>
           ret[1] = CODEX_ALIAS_MAP[call.raw_event]
    /\ (Returned("normalize_claude_event") /\ call.raw_event \in DOMAIN CLAUDE_ALIAS_MAP) =>
           ret[1] = CLAUDE_ALIAS_MAP[call.raw_event]

\* a hyphenated alias key has been normalized to a category other than itself
C18_Witness ==
    /\ Returned("normalize_codex_event")
    /\ call.raw_event = "rate-limit"
    /\ ret[1] = "resource-limit"

(***************************************************************************)
(* C19.  For a codex event whose normalized category is empty or no known  *)
(* category, with a payload that is no turn-complete signal, the candidate *)
(* list is the single element task-complete.                               *)
(***************************************************************************)
C19_UnknownCodexEventDefault ==
    (Returned("resolve_events") /\ call.tool = "codex"
        /\ ret[1].normalized \notin EVENT_DOCS.codex
        /\ ~codex_candidates(call.payload_text, call.event_override, call.cfg).turn_complete) =>
        ret[1].candidates = <<"task-complete">>

(***************************************************************************)
(* C20.  load_config is idempotent: called again with no write in between, *)
(* it leaves the document the first call left and returns the config the   *)
(* first call returned, whatever the file held before (nothing, no JSON,   *)
(* a JSON value that is no object, any stored object); on a file it cannot *)
(* decode every call raises and leaves the file as it is.                  *)
(***************************************************************************)
C20_LoadConfigIdempotent ==
    call.fn = "load_config" =>
        \A i \in 2..Len(ret) :
            /\ ret[i].file = ret[1].file
            /\ ret[i].raised = ret[1].raised
            /\ ret[i].config = ret[1].config

\* the second call has returned, on a stored object with a key the defaults
\* do not know and with keyword lists merged into the default ones
C20_Witness ==
    /\ call.fn = "load_config"
    /\ Len(ret) = 2
    /\ "hook_strict_exit" \in DOMAIN ret[2].config
    /\ "context-compact" \in DOMAIN ret[2].config.codex_keywords.m
    /\ "resource-limit" \in DOMAIN ret[2].config.codex_keywords.m
    /\ ~ret[2].config.enabled

(***************************************************************************)
(* One invocation on an arbitrary stored state document.  The document     *)
(* was left by earlier invocations (or edited by hand): playback_pid may   *)
(* be absent, not a pid (0, negative, an integer pid_t cannot hold), the   *)
(* pid of a process that has ended or of one still running; last_event_ts  *)
(* and last_played may be anything JSON allows.  Before the invocation the *)
(* user may run on, off or toggle.                                         *)
(***************************************************************************)
StoredPids ==
    {None, Num(0), Num(-1), Num(PidTMax + 1)} \cup {Num(pid) : pid \in 1..MaxPid}

StoredTimestamps ==
    {Dict(EmptyMap), NotADict,
     Dict([c \in {"task-complete"} |-> Num(1)]),
     Dict([c \in {"task-complete", "session-start"} |-> Num(1)])}

StoredLastPlayed ==
    {Dict(EmptyMap), NotADict,
     Dict([k \in {<<"codex", "task-complete">>} |-> File(1, ".wav")])}

StoredDocuments ==
    {NoDocument} \cup
    {Document([last_played |-> lp, last_event_ts |-> ts, playback_pid |-> pid]) :
        lp \in StoredLastPlayed, ts \in StoredTimestamps, pid \in StoredPids}

StoredProc == "p1"

InitStored ==
    /\ config_file \in {save_json(cfg) : cfg \in Configs}
    /\ fcntl = TRUE
    /\ has_player \in BOOLEAN
    /\ disk \in StoredDocuments
    /\ lock_holder = NoProc
    /\ pc = [p \in Procs |-> "idle"]
    /\ cmd = [p \in Procs |-> "none"]
    /\ tool = [p \in Procs |-> "none"]
    /\ candidates = [p \in Procs |-> <<>>]
    /\ state = [p \in Procs |-> DEFAULT_STATE]
    /\ loaded = [p \in Procs |-> DEFAULT_STATE]
    /\ result = [p \in Procs |-> NoResult]
    /\ exit_code = [p \in Procs |-> NoExit]
    /\ clock \in 1..MaxTime
    /\ running \in SUBSET (1..MaxPid)
    /\ last_fired = [c \in Categories |-> 0]
    /\ overlapped = FALSE
    /\ call = NoCall
    /\ ret = None

\* set_enabled(value), lines 693-698: load_config, set the flag, save
set_enabled(value) ==
    /\ \A p \in Procs : pc[p] = "idle"
    /\ config_file' = IF load_config_call(config_file).raised THEN config_file
                      ELSE save_json([load_config_call(config_file).config
                                         EXCEPT !.enabled = value])
    /\ UNCHANGED <<disk, lock_holder, pc, cmd, tool, candidates, state, loaded,
                   result, exit_code, clock, running>>
    /\ UNCHANGED <<env_vars, hist_vars>>

\* cmd_toggle, lines 701-704
cmd_toggle ==
    /\ ~load_config_call(config_file).raised
    /\ set_enabled(~load_config_call(config_file).config.enabled)

NextStored ==
    \/ \E value \in BOOLEAN : set_enabled(value)
    \/ cmd_toggle
    \/ cmd_hook_begin(StoredProc)
    \/ cmd_play_begin(StoredProc)
    \/ do_try_play_event(StoredProc)
    \/ try_play_event_raises(StoredProc)
    \/ save_and_return(StoredProc)
    \/ process_exit(StoredProc)

SpecStored == InitStored /\ [][NextStored]_vars

(***************************************************************************)
(* C21.  With prevent_overlap enabled and a stored playback_pid that is    *)
(* absent, not a valid pid or the pid of no live process, try_play_event   *)
(* returns having gone on to the candidates (it plays exactly when some    *)
(* candidate qualifies) and, when none plays, leaves playback_pid = none;  *)
(* that is the document then saved.  With prevent_overlap disabled the     *)
(* stored pid decides nothing (the call plays exactly when some candidate  *)
(* qualifies, a live pid included) and playback_pid is as loaded unless a  *)
(* candidate played.                                                       *)
(***************************************************************************)
\* the step in which p's call of try_play_event ends, by return or exception
TryCall(p) == pc[p] = "loaded" /\ pc'[p] # "loaded"

SaveStep(p) == pc[p] = "tried" /\ pc'[p] = "done"

C21_StalePidCleared ==
    [][\A p \in Procs :
          /\ (TryCall(p) /\ config.prevent_overlap /\ ~StoredPidAlive(state[p])) =>
                /\ pc'[p] = "tried"
                /\ (result'[p].used_event # NoEvent) <=> (Qualifying(p) # {})
                /\ result'[p].used_event = NoEvent => state'[p].playback_pid = None
          /\ (TryCall(p) /\ ~config.prevent_overlap) =>
                /\ pc'[p] = "tried"
                /\ (result'[p].used_event # NoEvent) <=> (Qualifying(p) # {})
                /\ result'[p].used_event = NoEvent =>
                      state'[p].playback_pid = state[p].playback_pid
          /\ SaveStep(p) => disk' = Document(state[p])]_vars

(***************************************************************************)
(* C22.  Without a player program, a call of try_play_event that reaches a *)
(* qualifying candidate still ends as played: it returns a file of that    *)
(* category and the category, records last_played[tool:category] and       *)
(* last_event_ts[category] = now (so the category is on cooldown where a   *)
(* cooldown is configured), starts no process and stores playback_pid =    *)
(* none; the document it saves does not make the overlap guard of a        *)
(* following invocation end that call, whatever processes are alive.       *)
(***************************************************************************)
C22_PlayedWithoutPlayer ==
    [][\A p \in Procs :
          LET c == result'[p].used_event
              key == <<tool[p], c>>
              following == [config EXCEPT !.prevent_overlap = TRUE]
          IN  /\ (/\ TryStep(p) /\ ~has_player
                  /\ ~(config.prevent_overlap /\ StoredPidAlive(state[p]))
                  /\ Qualifying(p) # {}) =>
                    /\ c \in SeqToSet(candidates[p])
                    /\ result'[p].path \in EligibleFiles(tool[p], c)
                    /\ state'[p].last_played = Dict(DictSet(last_played_dict(state[p]),
                                                            key, result'[p].path))
                    /\ state'[p].last_event_ts.kind = "dict"
                    /\ state'[p].last_event_ts.m[c] = Num(clock)
                    /\ event_cooldown_seconds(config, c) > 0 =>
                          on_cooldown(config, state'[p], c, clock)
                    /\ state'[p].playback_pid = None
                    /\ running' = running
              /\ (SaveStep(p) /\ ~has_player /\ Played(p)) =>
                    \A run \in SUBSET (1..MaxPid) :
                        /\ ~overlap_probe_raises(following, load_state(disk'))
                        /\ ~overlap_abort(following, load_state(disk'), run)]_vars

\* no player program; the document held the pid of a live process and
\* prevent_overlap is off; a category with a cooldown was played and the
\* document saved holds its timestamp and no pid
C22_Witness ==
    \E p \in Procs :
        /\ pc[p] = "done" /\ Played(p)
        /\ ~has_player
        /\ StoredPidAlive(loaded[p])
        /\ event_cooldown_seconds(config, result[p].used_event) > 0
        /\ disk.doc.playback_pid = None
        /\ disk.doc.last_event_ts.m[result[p].used_event] = Num(clock)
        /\ disk.doc.last_played.m[<<tool[p], result[p].used_event>>] = result[p].path

(***************************************************************************)
(* C23.  When a call of try_play_event returns without having played       *)
(* (every candidate on cooldown or without eligible files, or the overlap  *)
(* guard ended the call), last_played and last_event_ts are exactly as     *)
(* loaded, whatever they held, and so is the document saved: no category's *)
(* cooldown starts or is extended, each is on cooldown after the call      *)
(* exactly when it was before.                                             *)
(***************************************************************************)
C23_SkippedLeavesNoTrace ==
    [][\A p \in Procs :
          /\ (TryStep(p) /\ result'[p].used_event = NoEvent) =>
                /\ result'[p].path = NoFile
                /\ state'[p].last_played = loaded[p].last_played
                /\ state'[p].last_event_ts = loaded[p].last_event_ts
                /\ \A c \in Categories \cup SeqToSet(candidates[p]) :
                      on_cooldown(config, state'[p], c, clock)
                          <=> on_cooldown(config, loaded[p], c, clock)
          /\ (SaveStep(p) /\ ~Played(p)) =>
                /\ disk'.doc.last_played = loaded[p].last_played
                /\ disk'.doc.last_event_ts = loaded[p].last_event_ts]_vars

\* the first candidate has no eligible file and is not on cooldown, the
\* second has files and is on cooldown; nothing played, and the saved
\* document holds the timestamps as loaded, the first candidate's not among them
C23_Witness ==
    \E p \in Procs :
        /\ pc[p] = "done" /\ cmd[p] = "hook" /\ exit_code[p] = 0
        /\ ~Played(p)
        /\ Len(candidates[p]) = 2
        /\ ~HasEligibleFile(tool[p], candidates[p][1])
        /\ ~on_cooldown(config, loaded[p], candidates[p][1], clock)
        /\ HasEligibleFile(tool[p], candidates[p][2])
        /\ on_cooldown(config, loaded[p], candidates[p][2], clock)
        /\ disk.exists
        /\ disk.doc.last_event_ts = loaded[p].last_event_ts
        /\ candidates[p][1] \notin DOMAIN disk.doc.last_event_ts.m

(***************************************************************************)
(* C24.  A hook invocation that finds enabled = false in the configuration *)
(* ends at once with exit code 0: it resolves no candidate list, does not  *)
(* take the state lock, starts no player, and neither loads nor writes the *)
(* state document, whatever it was given and whatever the document holds.  *)
(***************************************************************************)
\* the step in which p, started as a hook, runs cmd_hook up to its return
\* or up to flock's return
HookCall(p) == pc[p] = "idle" /\ cmd'[p] = "hook"

C24_DisabledHookDoesNothing ==
    [][\A p \in Procs :
          (HookCall(p) /\ ~config.enabled) =>
              /\ pc'[p] = "done"
              /\ exit_code'[p] = 0
              /\ candidates'[p] = <<>>
              /\ lock_holder' = lock_holder
              /\ running' = running
              /\ last_fired' = last_fired
              /\ result'[p] = NoResult
              /\ state'[p] = state[p] /\ loaded'[p] = loaded[p]
              /\ disk' = disk]_vars

\* playback was switched off after the configuration asked for the overlap
\* guard; a hook has returned 0 and the state document still holds the pid
\* of a live player
C24_Witness ==
    \E p \in Procs :
        /\ pc[p] = "done" /\ cmd[p] = "hook"
        /\ ~config.enabled /\ config.prevent_overlap
        /\ exit_code[p] = 0
        /\ candidates[p] = <<>>
        /\ lock_holder = NoProc
        /\ disk.exists /\ StoredPidAlive(disk.doc)

(***************************************************************************)
(* C25.  When the payload is an object whose type is agent-turn-complete,  *)
(* the first candidate resolve_codex_events returns is the category        *)
(* inferred from the payload's message, whatever --event says; the         *)
(* category an explicit --event normalizes to is in the list after it,     *)
(* unless it is the inferred category itself, which is there once.         *)
(***************************************************************************)
PayloadIsTurnComplete(payload) ==
    payload.kind = "dict" /\ DictGet(payload.m, "type", "") = "agent-turn-complete"

PayloadMessage(payload) ==
    PyOr(DictGet(payload.m, "last-assistant-message", ""),
         DictGet(payload.m, "message", ""))

C25_InferredLeadsOverride ==
    (/\ Returned("resolve_events") /\ call.tool = "codex"
     /\ PayloadIsTurnComplete(parse_payload(call.payload_text))) =>
        LET inferred == infer_codex_event_from_message(
                            PayloadMessage(parse_payload(call.payload_text)), call.cfg)
            overridden == normalize_codex_event(call.event_override)
            cands == ret[1].candidates
        IN  /\ Len(cands) >= 1
            /\ cands[1] = inferred
            /\ (call.event_override # "" /\ overridden # "") =>
                  IF overridden = inferred
                  THEN \A i \in 2..Len(cands) : cands[i] # overridden
                  ELSE \E i \in 2..Len(cands) : cands[i] = overridden

\* --event start with a turn-complete payload whose message reports a
\* failure: task-error leads, session-start follows
C25_Witness ==
    /\ Returned("resolve_events") /\ call.tool = "codex"
    /\ PayloadIsTurnComplete(parse_payload(call.payload_text))
    /\ call.event_override = "start"
    /\ ret[1].candidates = <<"task-error", "session-start">>

====
